---- MODULE Spec2Model ----
(***************************************************************************)
(* PyCTD import pipeline (pyctd/manager/database.py): DbManager.db_import  *)
(* and what it calls: the schema reconciler get_index_and_columns_order,   *)
(* the surrogate key cache DbManager.mapper, the chunked table loader      *)
(* import_table_in_db and the one-to-many expander import_one_to_many.     *)
(*                                                                         *)
(* Text is a sequence of tokens ("MESH:", "C1", " ", "|", ...), so that    *)
(* prefixing, str.replace, str.strip and str.split act on the text. A      *)
(* source file is its parsed header line plus its data rows; a data row    *)
(* is one cell (a text, <<>> when the field is empty) per header column.   *)
(***************************************************************************)
EXTENDS Integers, Sequences, FiniteSets, TLC

\* Largest number of data rows of a source file.
MaxRows == 3
\* Rows per chunk: pd.read_table(chunksize=1000000), scaled down so that a
\* file of MaxRows rows spans more than one chunk.
ChunkSize == 2

Range(s) == {s[i] : i \in 1..Len(s)}
Min(a, b) == IF a < b THEN a ELSE b
SeqsUpTo(S, n) == UNION {[1..k -> S] : k \in 1..n}
RECURSIVE Flatten(_)
Flatten(ss) == IF ss = <<>> THEN <<>> ELSE Head(ss) \o Flatten(Tail(ss))

(***************************************************************************)
(* Values and text operations (pandas / str)                               *)
(***************************************************************************)
\* The missing value pandas gives an empty field.
NaN == <<"NaN">>
\* A null foreign key / a foreign key holding surrogate id n.
NullFk == <<>>
Fk(n) == <<n>>
\* Python's None / an int, as returned by get_index_of_column.
None == <<>>
Some(i) == <<i>>

\* How read_table reads one field.
ReadCell(c) == IF c = <<>> THEN NaN ELSE c

RECURSIVE LStrip(_)
LStrip(s) == IF s # <<>> /\ Head(s) = " " THEN LStrip(Tail(s)) ELSE s
RECURSIVE RStrip(_)
RStrip(s) == IF s # <<>> /\ s[Len(s)] = " " THEN RStrip(SubSeq(s, 1, Len(s) - 1)) ELSE s
\* str.strip()
StrStrip(s) == RStrip(LStrip(s))
\* str.replace('MESH:', '')
StrReplaceMesh(s) == SelectSeq(s, LAMBDA t : t # "MESH:")
\* 'MESH:' + s
PrependMesh(s) == <<"MESH:">> \o s
\* str.split("|")
RECURSIVE StrSplit(_)
StrSplit(s) ==
    IF \E i \in 1..Len(s) : s[i] = "|"
    THEN LET i == CHOOSE j \in 1..Len(s) : s[j] = "|" /\ \A k \in 1..(j - 1) : s[k] # "|"
         IN  <<SubSeq(s, 1, i - 1)>> \o StrSplit(SubSeq(s, i + 1, Len(s)))
    ELSE <<s>>
\* Number of "|" in a text.
Pipes(s) == Cardinality({i \in 1..Len(s) : s[i] = "|"})

(***************************************************************************)
(* The table registry (table_conf.tables, table_conf.domains_to_map).      *)
(***************************************************************************)
TableNames == {"chemical", "disease", "chem_disease", "exposure_event"}
domains_to_map == <<"chemical", "disease">>
Domains == Range(domains_to_map)

tables ==
    [t \in TableNames |->
        CASE t = "chemical" ->
               [file_name |-> "CTD_chemicals.tsv.gz",
                columns |-> << <<"ChemicalID", "chemical_id">> >>,
                one_to_many |-> <<>>,
                domain_id_column |-> <<"ChemicalID", "chemical_id">>]
          [] t = "disease" ->
               [file_name |-> "CTD_diseases.tsv.gz",
                columns |-> << <<"DiseaseID", "disease_id">> >>,
                one_to_many |-> <<>>,
                domain_id_column |-> <<"DiseaseID", "disease_id">>]
          [] t = "chem_disease" ->
               [file_name |-> "CTD_chemicals_diseases.tsv.gz",
                columns |-> << <<"ChemicalID", "chemical_id">>, <<"DiseaseID", "disease_id">> >>,
                one_to_many |-> << <<"PubMedIDs", "pubmed_id">> >>,
                domain_id_column |-> <<>>]
          [] OTHER ->
               [file_name |-> "CTD_exposure_events.tsv.gz",
                columns |-> << <<"DiseaseID", "disease_id">> >>,
                one_to_many |-> <<>>,
                domain_id_column |-> <<>>]]

\* class Table: the fields __init__ derives from a registry entry.
columns_in_file_expected(t) == [i \in 1..Len(tables[t].columns) |-> tables[t].columns[i][1]]
columns_dict(t) ==
    [c \in {tables[t].columns[i][1] : i \in 1..Len(tables[t].columns)} |->
        LET i == CHOOSE j \in 1..Len(tables[t].columns) :
                    /\ tables[t].columns[j][1] = c
                    /\ \A k \in (j + 1)..Len(tables[t].columns) : tables[t].columns[k][1] # c
        IN  tables[t].columns[i][2]]
one_to_many(t) == tables[t].one_to_many

(***************************************************************************)
(* Source files. File(h, lrows) lays logical rows (column name -> cell)    *)
(* out under header h.                                                     *)
(***************************************************************************)
File(h, lrows) ==
    [header |-> h,
     rows |-> [i \in 1..Len(lrows) |-> [k \in 1..Len(h) |-> lrows[i][h[k]]]]]

AllCols(t) ==
    CASE t = "chemical" -> {"ChemicalName", "ChemicalID"}
      [] t = "disease" -> {"DiseaseName", "DiseaseID"}
      [] t = "chem_disease" -> {"ChemicalID", "DiseaseID", "InferenceScore", "PubMedIDs"}
      [] OTHER -> {"Reference", "DiseaseID"}

BaseHeader(t) ==
    CASE t = "chemical" -> <<"ChemicalName", "ChemicalID">>
      [] t = "disease" -> <<"DiseaseID", "DiseaseName">>
      [] t = "chem_disease" -> <<"ChemicalID", "DiseaseID", "PubMedIDs">>
      [] OTHER -> <<"Reference", "DiseaseID">>

\* Headers a file may carry: reordered, with columns the registry does not
\* name, without an expected column (schema drift), without the one-to-many
\* column. A domain's file always carries the domain's id column.
Headers(t) ==
    CASE t = "chemical" -> {BaseHeader(t), <<"ChemicalID">>}
      [] t = "disease" -> {BaseHeader(t), <<"DiseaseID">>}
      [] t = "chem_disease" ->
            {BaseHeader(t),
             <<"DiseaseID", "InferenceScore", "ChemicalID", "PubMedIDs">>,
             <<"DiseaseID", "PubMedIDs">>,
             <<"ChemicalID", "DiseaseID">>,
             <<"ChemicalID">>}
      [] OTHER -> {BaseHeader(t), <<"DiseaseID">>, <<"Reference">>}

\* A logical row of table t with the given id and one-to-many cells.
LRow(t, chem, dis, pub) ==
    [c \in AllCols(t) |->
        CASE c = "ChemicalID" -> chem
          [] c = "DiseaseID" -> dis
          [] c = "PubMedIDs" -> pub
          [] OTHER -> <<"x">>]

BaseLRows(t) ==
    CASE t = "chemical" ->
            <<LRow(t, <<"MESH:", "C1">>, <<>>, <<>>), LRow(t, <<"MESH:", "C2">>, <<>>, <<>>)>>
      [] t = "disease" ->
            <<LRow(t, <<>>, <<"MESH:", "D1">>, <<>>), LRow(t, <<>>, <<"MESH:", "D2">>, <<>>)>>
      [] t = "chem_disease" ->
            <<LRow(t, <<"C2">>, <<"MESH:", "D2">>, <<"A", "|", "B">>),
              LRow(t, <<"C1">>, <<"MESH:", "D1">>, <<>>)>>
      [] OTHER ->
            <<LRow(t, <<>>, <<"D2">>, <<>>), LRow(t, <<>>, <<"D1">>, <<>>)>>

BaseFile(t) == File(BaseHeader(t), BaseLRows(t))
BaseFiles == [t \in TableNames |-> BaseFile(t)]

\* Natural ids a domain's file may hold, and ids a referencing file may hold.
ChemDomainIds == {<<"MESH:", "C1">>, <<"C1">>}
ChemRefIds == {<<"C1">>, <<"C9">>}
DiseaseDomainIds == {<<"MESH:", "D1">>, <<"MESH:", "D2">>}
DiseaseRefIds == {<<"D1">>, <<"D9">>}
\* Cells of a multi-valued column: empty, one piece, "A | B|C", a number, "|".
O2MCells == {<<>>, <<"A">>, <<"A", " ", "|", " ", "B", "|", "C">>, <<"7">>, <<"|">>}

\* The files of one run, by what varies.
ChemFiles ==
    {[BaseFiles EXCEPT
        !["chemical"] = File(BaseHeader("chemical"), d),
        !["chem_disease"] = File(BaseHeader("chem_disease"), r)] :
      d \in SeqsUpTo({LRow("chemical", c, <<>>, <<>>) : c \in ChemDomainIds}, MaxRows),
      r \in SeqsUpTo({LRow("chem_disease", c, <<"MESH:", "D1">>, <<"A">>) : c \in ChemRefIds}, MaxRows)}
DiseaseFiles ==
    {[BaseFiles EXCEPT
        !["disease"] = File(BaseHeader("disease"), d),
        !["exposure_event"] = File(BaseHeader("exposure_event"), r)] :
      d \in SeqsUpTo({LRow("disease", <<>>, c, <<>>) : c \in DiseaseDomainIds}, MaxRows),
      r \in SeqsUpTo({LRow("exposure_event", <<>>, c, <<>>) : c \in DiseaseRefIds}, MaxRows)}
O2MFiles ==
    {[BaseFiles EXCEPT
        !["chem_disease"] = File(BaseHeader("chem_disease"), r)] :
      r \in SeqsUpTo({LRow("chem_disease", <<"C1">>, <<"MESH:", "D1">>, p) : p \in O2MCells}, MaxRows)}
HeaderFiles ==
    {[t \in TableNames |-> File(h[t], BaseLRows(t))] :
      h \in {g \in [TableNames -> UNION {Headers(t) : t \in TableNames}] :
                \A t \in TableNames : g[t] \in Headers(t)}}

\* Rows left in the database by an earlier import.
StaleDb == [t \in TableNames |-> << ("id" :> 1) >>]
EmptyDb == [t \in TableNames |-> <<>>]
\* Side tables: <<parent table, child column>>.
O2MTables == UNION {{<<t, one_to_many(t)[i][2]>> : i \in 1..Len(one_to_many(t))} : t \in TableNames}
EmptyO2M == [k \in O2MTables |-> <<>>]

VARIABLES
    files,      \* table name -> the source file import reads for it
    empty_plan, \* what read_table does with usecols=[] and names=[]
    local,      \* tables whose file is already in PYCTD_DATA_DIR
    fetched,    \* tables whose file download_urls retrieved
    schema,     \* tables that exist in the database
    db,         \* table name -> rows written, in write order
    o2m,        \* side table -> child rows written, in write order
    mapper,     \* DbManager.__mapper: domain -> DataFrame; <<>> when empty
    scans,      \* domain -> number of times mapper read the domain's file
    accesses,   \* number of self.mapper accesses made
    log,        \* tables for which a schema drift was logged
    error,      \* the exception that ended db_import, "" when none
    failed,     \* the table whose import_table raised it, "" when none
    steps,      \* the steps db_import has performed, in order
    imported,   \* tables import_tables has finished
    pc          \* "idle", "db_import", "import_tables", "done", "raised"

vars == <<files, empty_plan, local, fetched, schema, db, o2m, mapper, scans, accesses, log,
          error, failed, steps, imported, pc>>

(***************************************************************************)
(* Header access                                                           *)
(***************************************************************************)
\* The names on the line that follows the "# Fields:" marker.
get_column_names_from_file(f) == f.header

get_index_of_column(column, f) ==
    LET columns == get_column_names_from_file(f)
    IN  IF column \in Range(columns)
        THEN Some((CHOOSE i \in 1..Len(columns) :
                      columns[i] = column /\ \A j \in 1..(i - 1) : columns[j] # column) - 1)
        ELSE None

\* Faulty variant of get_index_and_columns_order: the plan follows the order of the
\* expected columns instead of the file's.
get_index_and_columns_order_expected_order(expected, dict, f) ==
    LET column_names_from_file == get_column_names_from_file(f)
    IN  IF ~(Range(expected) \subseteq Range(column_names_from_file))
        THEN [use_columns_with_index |-> <<>>, column_names_in_db |-> <<>>, logged |-> TRUE]
        ELSE [use_columns_with_index |->
                  [k \in 1..Len(expected) |-> get_index_of_column(expected[k], f)[1]],
              column_names_in_db |-> [k \in 1..Len(expected) |-> dict[expected[k]]],
              logged |-> FALSE]

\* Returns the read plan; logged is TRUE when log.exception was called.
get_index_and_columns_order(expected, dict, f) ==
    LET column_names_from_file == get_column_names_from_file(f)
        n == Len(column_names_from_file)
    IN  IF ~(Range(expected) \subseteq Range(column_names_from_file))
        THEN [use_columns_with_index |-> <<>>, column_names_in_db |-> <<>>, logged |-> TRUE]
        ELSE LET hit == SelectSeq([i \in 1..n |-> i],
                                  LAMBDA i : column_names_from_file[i] \in DOMAIN dict)
             IN  [use_columns_with_index |-> [k \in 1..Len(hit) |-> hit[k] - 1],
                  column_names_in_db |->
                      [k \in 1..Len(hit) |-> dict[column_names_from_file[hit[k]]]],
                  logged |-> FALSE]

(***************************************************************************)
(* DataFrames: a sequence of rows [index, v], v: column label -> value.    *)
(***************************************************************************)
\* One chunk of pd.read_table(usecols, names, header=None, chunksize): the
\* data rows lo+1..hi (header and comment lines are skipped), the k-th name
\* labelling the k-th selected column, the index being the row's ordinal in
\* the file. A frame without columns has no rows.
read_table(f, usecols, names, lo, hi) ==
    IF usecols = <<>>
    THEN <<>>
    ELSE [k \in 1..(hi - lo) |->
            [index |-> lo + k - 1,
             v |-> [c \in Range(names) |->
                      ReadCell(f.rows[lo + k][usecols[CHOOSE i \in 1..Len(names) : names[i] = c] + 1])]]]

DelColumn(frame, c) ==
    [k \in 1..Len(frame) |-> [frame[k] EXCEPT !.v = [x \in (DOMAIN @) \ {c} |-> @[x]]]]

\* Faulty variant of pd_merge_left: how='inner', a left row without a match is lost.
pd_merge_inner(left, right, on) ==
    LET rcols == IF right = <<>> THEN {} ELSE (DOMAIN right[1].v) \ {on}
        Expand(l) ==
            LET m == SelectSeq(right, LAMBDA r : r.v[on] = l.v[on])
            IN  [j \in 1..Len(m) |->
                    [c \in (DOMAIN l.v) \cup rcols |->
                        IF c \in DOMAIN l.v THEN l.v[c] ELSE Fk(m[j].v[c])]]
        out == Flatten([k \in 1..Len(left) |-> Expand(left[k])])
    IN  [k \in 1..Len(out) |-> [index |-> k - 1, v |-> out[k]]]

\* pd.merge(left, right, on=on, how='left'): every left row, in order, once
\* per right row with an equal key (missing keys match each other), or once
\* with null right columns when no right row matches. The index is reset.
pd_merge_left(left, right, on) ==
    LET rcols == IF right = <<>> THEN {} ELSE (DOMAIN right[1].v) \ {on}
        Joined(l, vals) == [c \in (DOMAIN l.v) \cup rcols |->
                              IF c \in DOMAIN l.v THEN l.v[c] ELSE vals[c]]
        Expand(l) ==
            LET m == SelectSeq(right, LAMBDA r : r.v[on] = l.v[on])
            IN  IF m = <<>>
                THEN << Joined(l, [c \in rcols |-> NullFk]) >>
                ELSE [j \in 1..Len(m) |-> Joined(l, [c \in rcols |-> Fk(m[j].v[c])])]
        out == Flatten([k \in 1..Len(left) |-> Expand(left[k])])
    IN  [k \in 1..Len(out) |-> [index |-> k - 1, v |-> out[k]]]

(***************************************************************************)
(* Surrogate key mapper                                                    *)
(***************************************************************************)
\* domain + '_id' and domain + '__id'
DomainIdName(domain) == IF domain = "chemical" THEN "chemical_id" ELSE "disease_id"
FkName(domain) == IF domain = "chemical" THEN "chemical__id" ELSE "disease__id"

\* Faulty variant of MapperKey: the surrogate id is the 0-based index itself.
MapperKey_zero_based(index) == index

\* df.index + 1
MapperKey(index) == index + 1

\* The DataFrame mapper builds for one domain from the domain's own file.
MapperFrame(domain) ==
    LET tab_conf == tables[domain]
        f == files[domain]
        col_name_in_db == tab_conf.domain_id_column[2]
        column_index == get_index_of_column(tab_conf.domain_id_column[1], f)[1]
        Natural(raw) == IF domain = "chemical" /\ raw # NaN
                        THEN StrStrip(StrReplaceMesh(raw))
                        ELSE raw
    IN  [k \in 1..Len(f.rows) |->
            [index |-> k - 1,
             v |-> (col_name_in_db :> Natural(ReadCell(f.rows[k][column_index + 1])))
                   @@ (FkName(domain) :> MapperKey(k - 1))]]

\* Faulty variant of Mapper: no cache test, every access scans the files again.
Mapper_uncached(st) ==
    [st EXCEPT !.mapper = [d \in Domains |-> MapperFrame(d)],
               !.scans = [d \in Domains |-> st.scans[d] + 1]]

\* The property mapper, on the mutable state st: fills the cache for every
\* domain when it is empty, and returns it.
Mapper(st) ==
    IF DOMAIN st.mapper = {}
    THEN [st EXCEPT !.mapper = [d \in Domains |-> MapperFrame(d)],
                    !.scans = [d \in Domains |-> st.scans[d] + 1]]
    ELSE st

(***************************************************************************)
(* Table loader                                                            *)
(***************************************************************************)
\* Faulty variant of RowKey: the row key is the 0-based index itself.
RowKey_zero_based(index) == index

\* chunk.index + 1
RowKey(index) == index + 1

\* Faulty variant of FixUp: the prefix is never added.
FixUp_no_prefix(chunk, table_name) == chunk

\* chunk.disease_id = 'MESH:' + chunk.disease_id, for exposure_event only.
FixUp(chunk, table_name) ==
    IF table_name = "exposure_event"
    THEN [k \in 1..Len(chunk) |->
            [chunk[k] EXCEPT !.v["disease_id"] = IF @ = NaN THEN NaN ELSE PrependMesh(@)]]
    ELSE chunk

AssignId(chunk) ==
    [k \in 1..Len(chunk) |-> [chunk[k] EXCEPT !.v = @ @@ ("id" :> RowKey(chunk[k].index))]]

\* The loop over domains_to_map of one chunk, from position k on.
RECURSIVE MergeDomains(_, _, _, _)
MergeDomains(chunk, column_names_in_db, k, st) ==
    IF k > Len(domains_to_map)
    THEN [chunk |-> chunk, st |-> st]
    ELSE LET domain == domains_to_map[k]
             domain_id == DomainIdName(domain)
         IN  IF domain_id \in Range(column_names_in_db)
             THEN LET st1 == Mapper(st)
                      merged == pd_merge_left(chunk, st1.mapper[domain], domain_id)
                  IN  MergeDomains(DelColumn(merged, domain_id), column_names_in_db, k + 1,
                                   [st1 EXCEPT !.accesses = @ + 1])
             ELSE MergeDomains(chunk, column_names_in_db, k + 1, st)

\* import_table_in_db, from the chunk that starts at data row lo. With the
\* empty read plan of a schema drift, pandas either raises while it reads
\* the first chunk (it looks up the name of a column in the empty names) or
\* yields chunks without columns, in which exposure_event's fix-up finds no
\* disease_id; which one depends on the pandas installed (empty_plan).
RECURSIVE ImportChunks(_, _, _, _, _, _)
ImportChunks(f, use_columns_with_index, column_names_in_db, table_name, lo, st) ==
    IF st.error # "" \/ lo >= Len(f.rows)
    THEN st
    ELSE LET hi == Min(lo + ChunkSize, Len(f.rows))
             chunk == read_table(f, use_columns_with_index, column_names_in_db, lo, hi)
         IN  IF use_columns_with_index = <<>> /\ empty_plan = "IndexError"
             THEN [st EXCEPT !.error = "IndexError"]
             ELSE IF table_name = "exposure_event" /\ "disease_id" \notin Range(column_names_in_db)
             THEN [st EXCEPT !.error = "AttributeError"]
             ELSE LET keyed == AssignId(FixUp(chunk, table_name))
                      r == IF table_name \notin Domains
                           THEN MergeDomains(keyed, column_names_in_db, 1, st)
                           ELSE [chunk |-> keyed, st |-> st]
                      written == [k \in 1..Len(r.chunk) |-> r.chunk[k].v]
                  IN  ImportChunks(f, use_columns_with_index, column_names_in_db, table_name, hi,
                                   [r.st EXCEPT !.db[table_name] = @ \o written])

import_table_in_db(f, use_columns_with_index, column_names_in_db, table_name, st) ==
    ImportChunks(f, use_columns_with_index, column_names_in_db, table_name, 0, st)

(***************************************************************************)
(* One-to-many expander                                                    *)
(***************************************************************************)
\* Tokens read_table parses as numbers.
Digits == {"7"}
IsNumber(c) == Len(c) = 1 /\ c[1] \in Digits

\* The dtype read_table infers for one column of one chunk: numbers only
\* make an integer column, numbers and empty fields a float column, anything
\* else leaves the texts as they are.
ColumnDtype(cells) ==
    IF \A k \in 1..Len(cells) : cells[k] = <<>> \/ IsNumber(cells[k])
    THEN IF \E k \in 1..Len(cells) : cells[k] = <<>> THEN "float64" ELSE "int64"
    ELSE "object"

\* str(entry) of a value that is not a str.
PyStr(dtype, text) == IF dtype = "float64" THEN text \o <<".0">> ELSE text

\* chunk.index += 1
ParentKey(index) == index + 1

\* The child rows of one parent row: one per piece of entry.split("|").
ChildRows(parent_id, entry) ==
    LET pieces == StrSplit(entry)
    IN  [j \in 1..Len(pieces) |-> [parent_id |-> parent_id, value |-> StrStrip(pieces[j])]]

\* import_one_to_many, from the chunk that starts at data row lo.
RECURSIVE ExpandChunks(_, _, _, _, _, _)
ExpandChunks(f, column_index, parent_table_name, column_in_one2many_table, lo, st) ==
    IF lo >= Len(f.rows)
    THEN st
    ELSE LET hi == Min(lo + ChunkSize, Len(f.rows))
             cells == [k \in 1..(hi - lo) |-> f.rows[lo + k][column_index + 1]]
             dtype == ColumnDtype(cells)
             kept == SelectSeq([k \in 1..(hi - lo) |-> k], LAMBDA k : cells[k] # <<>>)
             Entry(k) == IF dtype = "object" THEN cells[k] ELSE PyStr(dtype, cells[k])
             children == Flatten([n \in 1..Len(kept) |->
                                    ChildRows(ParentKey(lo + kept[n] - 1), Entry(kept[n]))])
         IN  ExpandChunks(f, column_index, parent_table_name, column_in_one2many_table, hi,
                          [st EXCEPT !.o2m[<<parent_table_name, column_in_one2many_table>>] =
                                        @ \o children])

\* usecols=[None] makes read_table raise before anything is read.
import_one_to_many(f, column_index, parent_table_name, column_in_one2many_table, st) ==
    IF column_index = None
    THEN [st EXCEPT !.error = "ValueError"]
    ELSE ExpandChunks(f, column_index[1], parent_table_name, column_in_one2many_table, 0, st)

(***************************************************************************)
(* import_table                                                            *)
(***************************************************************************)
RECURSIVE ImportOneToManyLoop(_, _, _)
ImportOneToManyLoop(table, k, st) ==
    IF st.error # "" \/ k > Len(one_to_many(table))
    THEN st
    ELSE LET column_in_file == one_to_many(table)[k][1]
             column_in_one2many_table == one_to_many(table)[k][2]
             o2m_column_index == get_index_of_column(column_in_file, files[table])
         IN  ImportOneToManyLoop(table, k + 1,
                 import_one_to_many(files[table], o2m_column_index, table,
                                    column_in_one2many_table, st))

\* Faulty variant of import_table: a table whose schema drifted is skipped.
import_table_skip_on_drift(table, st) ==
    LET f == files[table]
        r == get_index_and_columns_order(columns_in_file_expected(table), columns_dict(table), f)
    IN  IF r.logged
        THEN [st EXCEPT !.log = @ \cup {table}]
        ELSE ImportOneToManyLoop(table, 1,
                 import_table_in_db(f, r.use_columns_with_index, r.column_names_in_db, table, st))

import_table(table, st) ==
    LET f == files[table]
        r == get_index_and_columns_order(columns_in_file_expected(table), columns_dict(table), f)
        st0 == IF r.logged THEN [st EXCEPT !.log = @ \cup {table}] ELSE st
        st1 == import_table_in_db(f, r.use_columns_with_index, r.column_names_in_db, table, st0)
    IN  ImportOneToManyLoop(table, 1, st1)

(***************************************************************************)
(* db_import                                                               *)
(***************************************************************************)
\* Faulty variant of DbImportSteps: the tables are recreated before the download.
DbImportSteps_create_before_download ==
    <<"drop_tables", "create_tables", "download_urls", "import_tables">>

\* The calls db_import makes, in order.
DbImportSteps == <<"drop_tables", "download_urls", "create_tables", "import_tables">>

NextStep == IF Len(steps) < Len(DbImportSteps) THEN DbImportSteps[Len(steps) + 1] ELSE "return"

State == [db |-> db, o2m |-> o2m, mapper |-> mapper, scans |-> scans,
          accesses |-> accesses, log |-> log, error |-> error]

Init ==
    /\ \/ files \in ChemFiles /\ local = {} /\ db = EmptyDb /\ empty_plan = "IndexError"
       \/ files \in DiseaseFiles /\ local = {} /\ db = EmptyDb /\ empty_plan = "IndexError"
       \/ files \in O2MFiles /\ local = {} /\ db = EmptyDb /\ empty_plan = "IndexError"
       \/ /\ files \in HeaderFiles
          /\ empty_plan \in {"IndexError", "no rows"}
          /\ local \in {{}, {"chemical"}, TableNames}
          /\ db \in {EmptyDb, StaleDb}
    /\ fetched = {}
    /\ schema = IF db = EmptyDb THEN {} ELSE TableNames
    /\ o2m = EmptyO2M
    /\ mapper = <<>>
    /\ scans = [d \in Domains |-> 0]
    /\ accesses = 0
    /\ log = {}
    /\ error = ""
    /\ failed = ""
    /\ steps = <<>>
    /\ imported = {}
    /\ pc = "idle"

\* update(): db_import is called, with the default urls.
DbImport ==
    /\ pc = "idle"
    /\ pc' = "db_import"
    /\ UNCHANGED <<files, empty_plan, local, fetched, schema, db, o2m, mapper, scans, accesses, log,
                   error, failed, steps, imported>>

DropTables ==
    /\ pc = "db_import" /\ NextStep = "drop_tables"
    /\ schema' = {}
    /\ db' = EmptyDb
    /\ o2m' = EmptyO2M
    /\ steps' = Append(steps, "drop_tables")
    /\ UNCHANGED <<files, empty_plan, local, fetched, mapper, scans, accesses, log, error, failed,
                   imported, pc>>

DownloadUrls ==
    /\ pc = "db_import" /\ NextStep = "download_urls"
    /\ \E force_download \in BOOLEAN :
          fetched' = {t \in TableNames : force_download \/ t \notin local}
    /\ local' = TableNames
    /\ steps' = Append(steps, "download_urls")
    /\ UNCHANGED <<files, empty_plan, schema, db, o2m, mapper, scans, accesses, log, error, failed,
                   imported, pc>>

CreateTables ==
    /\ pc = "db_import" /\ NextStep = "create_tables"
    /\ schema' = TableNames
    /\ steps' = Append(steps, "create_tables")
    /\ UNCHANGED <<files, empty_plan, local, fetched, db, o2m, mapper, scans, accesses, log, error,
                   failed, imported, pc>>

ImportTables ==
    /\ pc = "db_import" /\ NextStep = "import_tables"
    /\ pc' = "import_tables"
    /\ steps' = Append(steps, "import_tables")
    /\ UNCHANGED <<files, empty_plan, local, fetched, schema, db, o2m, mapper, scans, accesses, log,
                   error, failed, imported>>

\* One pass of the loop of import_tables: import_table(table). The registry's
\* iteration order is not fixed by this file, so any table not yet imported
\* may come next.
ImportTable(table) ==
    /\ pc = "import_tables"
    /\ table \notin imported
    /\ \E st \in {import_table(table, State)} :
           /\ db' = st.db
           /\ o2m' = st.o2m
           /\ mapper' = st.mapper
           /\ scans' = st.scans
           /\ accesses' = st.accesses
           /\ log' = st.log
           /\ error' = st.error
           /\ schema' = schema \cup {table}
           /\ IF st.error = ""
              THEN imported' = imported \cup {table} /\ pc' = pc /\ failed' = failed
              ELSE imported' = imported /\ pc' = "raised" /\ failed' = table
    /\ UNCHANGED <<files, empty_plan, local, fetched, steps>>

Return ==
    /\ pc = "import_tables"
    /\ imported = TableNames
    /\ pc' = "done"
    /\ UNCHANGED <<files, empty_plan, local, fetched, schema, db, o2m, mapper, scans, accesses, log,
                   error, failed, steps, imported>>

Next ==
    \/ DbImport
    \/ DropTables
    \/ DownloadUrls
    \/ CreateTables
    \/ ImportTables
    \/ \E table \in TableNames : ImportTable(table)
    \/ Return

Spec == Init /\ [][Next]_vars

(***************************************************************************)
(* Properties                                                              *)
(***************************************************************************)
NRows(t) == Len(files[t].rows)
\* The expected columns of t are not a subset of its file's header.
Drift(t) == ~(Range(columns_in_file_expected(t)) \subseteq Range(files[t].header))
\* The cell of data row k (1-based) of t's file under file column c.
RawCell(t, c, k) ==
    files[t].rows[k][CHOOSE i \in 1..Len(files[t].header) : files[t].header[i] = c]
\* The file column of t that the registry renames to db column n.
FileColumnOf(t, n) == CHOOSE c \in DOMAIN columns_dict(t) : columns_dict(t)[c] = n
\* Table t is not a domain and its read plan holds the natural id of domain d.
RefersTo(t, d) ==
    /\ t \notin Domains
    /\ ~Drift(t)
    /\ \E c \in DOMAIN columns_dict(t) : columns_dict(t)[c] = DomainIdName(d)
\* The rows written to t with key id.
RowsWithId(t, id) == {i \in 1..Len(db[t]) : db[t][i]["id"] = id}
\* The natural id cell of data row k of t, as read from the file.
NaturalIdRead(t, d, k) == ReadCell(RawCell(t, FileColumnOf(t, DomainIdName(d)), k))
\* The natural id column of domain d's mapping, and its entries for a key.
MappingKey(d, k) == mapper[d][k].v[DomainIdName(d)]
MappingIds(d, key) == {mapper[d][k].v[FkName(d)] : k \in {j \in 1..Len(mapper[d]) : MappingKey(d, j) = key}}

\* C1: every table import_table_in_db has loaded holds exactly one row per
\* data row of its file, the row of the data row at 0-based ordinal i having
\* id i + 1, so that no two rows of the table share an id.
C1_OneRowPerDataRow ==
    \A t \in imported :
        ~Drift(t) =>
            /\ Len(db[t]) = NRows(t)
            /\ \A k \in 1..Len(db[t]) : db[t][k]["id"] = k

\* C2 as stated: mapper[D] holds the ids 1..N, the row at ordinal i having id
\* i + 1, and every natural id has one surrogate id.
C2_UniqueIdPerNaturalId ==
    \A d \in DOMAIN mapper :
        /\ {mapper[d][k].v[FkName(d)] : k \in 1..Len(mapper[d])} = 1..NRows(d)
        /\ \A k \in 1..Len(mapper[d]) : mapper[d][k].v[FkName(d)] = mapper[d][k].index + 1
        /\ \A k \in 1..Len(mapper[d]) : Cardinality(MappingIds(d, MappingKey(d, k))) = 1

\* The natural id the mapping is to key data row k of domain d's file by.
NaturalIdOf(d, k) ==
    LET raw == ReadCell(RawCell(d, tables[d].domain_id_column[1], k))
    IN  IF d = "chemical" /\ raw # NaN
        THEN StrStrip(SelectSeq(raw, LAMBDA x : x # "MESH:"))
        ELSE raw

\* C2, amended: mapper[D] has one entry per data row of D's file, in file
\* order, the entry of the row at 0-based ordinal i holding that row's
\* natural id and the surrogate id i + 1, so that the surrogate ids are
\* exactly 1..N; a natural id has as many surrogate ids as rows it occurs in.
C2_MappingIdsAreOrdinals ==
    \A d \in DOMAIN mapper :
        /\ Len(mapper[d]) = NRows(d)
        /\ {mapper[d][k].v[FkName(d)] : k \in 1..Len(mapper[d])} = 1..NRows(d)
        /\ \A k \in 1..Len(mapper[d]) :
              /\ mapper[d][k].v[FkName(d)] = k
              /\ MappingKey(d, k) = NaturalIdOf(d, k)
              /\ Cardinality(MappingIds(d, MappingKey(d, k))) =
                    Cardinality({j \in 1..NRows(d) : NaturalIdOf(d, j) = NaturalIdOf(d, k)})

\* C2 witness: a filled mapping in which one natural id occurs in two rows.
C2_Witness ==
    /\ DOMAIN mapper = Domains
    /\ \E d \in Domains : \E i, j \in 1..Len(mapper[d]) :
          i # j /\ MappingKey(d, i) = MappingKey(d, j)

\* The natural id cell of data row k of t as it stands in the chunk when the
\* chunk is joined with domain d's mapping.
ChunkNaturalId(t, d, k) ==
    LET raw == NaturalIdRead(t, d, k)
    IN  IF t = "exposure_event" /\ d = "disease" /\ raw # NaN THEN <<"MESH:">> \o raw ELSE raw

\* C3: in a loaded table that is not a domain, every '<domain>_id' column of
\* the read plan is replaced by '<domain>__id' in every row; every data row
\* is written, and a row whose natural id has no entry in the domain's
\* mapping is written with a null foreign key.
C3_UnmatchedRowsKeptWithNullKey ==
    \A t \in imported : \A d \in Domains :
        RefersTo(t, d) =>
            /\ \A i \in 1..Len(db[t]) :
                  FkName(d) \in DOMAIN db[t][i] /\ DomainIdName(d) \notin DOMAIN db[t][i]
            /\ \A k \in 1..NRows(t) :
                  /\ RowsWithId(t, k) # {}
                  /\ MappingIds(d, ChunkNaturalId(t, d, k)) = {} =>
                        \A i \in RowsWithId(t, k) : db[t][i][FkName(d)] = NullFk

\* C3 witness: a loaded row whose natural id the mapping lacks, written with
\* a null foreign key.
C3_Witness ==
    \E t \in imported : \E d \in Domains :
        /\ RefersTo(t, d)
        /\ \E k \in 1..NRows(t) :
              /\ MappingIds(d, ChunkNaturalId(t, d, k)) = {}
              /\ \E i \in RowsWithId(t, k) : db[t][i][FkName(d)] = NullFk

\* The read plan of table t.
Plan(t) == get_index_and_columns_order(columns_in_file_expected(t), columns_dict(t), files[t])

\* C4: when the expected columns are a subset of the header, the plan holds
\* the header indices of exactly the expected columns, ascending, each with
\* the rename-map image of the column at that index; otherwise the drift is
\* logged and an empty plan is returned (nothing is raised).
C4_PlanInFileOrder ==
    \A t \in TableNames :
        LET h == files[t].header
            idx == Plan(t).use_columns_with_index
            names == Plan(t).column_names_in_db
        IN  IF Range(columns_in_file_expected(t)) \subseteq Range(h)
            THEN /\ ~Plan(t).logged
                 /\ t \notin log
                 /\ Range(idx) = {i - 1 : i \in {j \in 1..Len(h) : h[j] \in Range(columns_in_file_expected(t))}}
                 /\ \A k \in 1..(Len(idx) - 1) : idx[k] < idx[k + 1]
                 /\ Len(names) = Len(idx)
                 /\ \A k \in 1..Len(idx) : names[k] = columns_dict(t)[h[idx[k] + 1]]
            ELSE /\ Plan(t).logged
                 /\ idx = <<>> /\ names = <<>>
                 /\ (t \in imported \/ failed = t) => t \in log

\* C4 witness: a table loaded from a header that holds the expected columns
\* in another order, with a column the rename map lacks between them, and a
\* table whose drift was logged.
C4_Witness ==
    /\ "chem_disease" \in imported
    /\ files["chem_disease"].header = <<"DiseaseID", "InferenceScore", "ChemicalID", "PubMedIDs">>
    /\ Plan("chem_disease").use_columns_with_index = <<0, 2>>
    /\ Plan("chem_disease").column_names_in_db = <<"disease_id", "chemical_id">>
    /\ "exposure_event" \in log

\* C5: the side table of a loaded one-to-many column holds, for every data
\* row at 0-based ordinal i with a non-empty value holding k pipes, the k + 1
\* child rows (i + 1, trimmed piece), and nothing for an empty value.
C5_ChildRowsPerPiece ==
    \A t \in imported : \A n \in 1..Len(one_to_many(t)) :
        one_to_many(t)[n][1] \in Range(files[t].header) =>
            o2m[<<t, one_to_many(t)[n][2]>>] =
                Flatten([r \in 1..NRows(t) |->
                    LET cell == RawCell(t, one_to_many(t)[n][1], r)
                    IN  IF cell = <<>>
                        THEN <<>>
                        ELSE [j \in 1..(Pipes(cell) + 1) |->
                                [parent_id |-> r, value |-> StrStrip(StrSplit(cell)[j])]]])

\* C6: nothing is scanned before the first access to the mapper; from the
\* first access on the cache holds the mapping of every domain, each
\* domain's file has been read exactly once however many accesses followed,
\* and the cached mapping is the one built from the domain's file.
C6_MapperFilledOnceForAllDomains ==
    /\ accesses = 0 => mapper = <<>> /\ \A d \in Domains : scans[d] = 0
    /\ accesses > 0 =>
          /\ DOMAIN mapper = Domains
          /\ \A d \in Domains :
                /\ scans[d] = 1
                /\ Len(mapper[d]) = NRows(d)
                /\ \A k \in 1..Len(mapper[d]) :
                      MappingKey(d, k) = NaturalIdOf(d, k) /\ mapper[d][k].v[FkName(d)] = k

\* C6 witness: a third access, for another table, served from the cache.
C6_Witness ==
    /\ accesses > 2
    /\ {t \in imported : \E d \in Domains : RefersTo(t, d)} = {"chem_disease", "exposure_event"}
    /\ \A d \in Domains : scans[d] = 1

IsPrefix(s, t) == Len(s) <= Len(t) /\ \A i \in 1..Len(s) : s[i] = t[i]

ParentKeys(key) == {o2m[key][i].parent_id : i \in 1..Len(o2m[key])}

\* C8 as stated: after a schema drift the import of the table is a no-op
\* that raises nothing: no row in its table, none in its side tables, and
\* the import goes on.
C8_DriftIsNoOp ==
    \A t \in log :
        /\ t \in imported
        /\ db[t] = <<>>
        /\ \A n \in 1..Len(one_to_many(t)) : o2m[<<t, one_to_many(t)[n][2]>>] = <<>>

\* C8, amended: after a schema drift import_table logs the error, goes on
\* with an empty read plan and writes no row to the table. It is not a no-op:
\* the load raises when pandas rejects the empty plan, for exposure_event
\* (the chunk has no disease_id) and for a one-to-many column the header
\* lacks; otherwise every one-to-many column of the table is still expanded
\* into its side table, and only then does the import go on.
C8_DriftWritesNoTableRows ==
    /\ \A t \in TableNames : Drift(t) /\ (t \in imported \/ failed = t) => t \in log
    /\ \A t \in log :
          /\ Drift(t)
          /\ db[t] = <<>>
          /\ failed = t <=>
                \/ empty_plan = "IndexError"
                \/ t = "exposure_event"
                \/ \E n \in 1..Len(one_to_many(t)) : one_to_many(t)[n][1] \notin Range(files[t].header)
          /\ failed # t =>
                /\ t \in imported
                /\ \A n \in 1..Len(one_to_many(t)) :
                      ParentKeys(<<t, one_to_many(t)[n][2]>>) =
                          {r \in 1..NRows(t) : RawCell(t, one_to_many(t)[n][1], r) # <<>>}

\* C8 witness: a table imported after a drift, with child rows in its side
\* table and none in the table itself.
C8_Witness ==
    \E t \in log \cap imported :
        /\ db[t] = <<>>
        /\ \E n \in 1..Len(one_to_many(t)) : o2m[<<t, one_to_many(t)[n][2]>>] # <<>>

\* C9: the foreign keys written for a data row are those of the mapping
\* entries whose natural id equals, for exposure_event's disease_id, 'MESH:'
\* + the value read from the file, and for every other table and column the
\* value read from the file, unchanged; the row keeps the key of its ordinal.
C9_ExposureEventJoinedOnPrefixedId ==
    \A t \in imported : \A d \in Domains :
        RefersTo(t, d) =>
            \A k \in 1..NRows(t) :
                LET raw == NaturalIdRead(t, d, k)
                    key == IF t = "exposure_event" /\ d = "disease" /\ raw # NaN
                           THEN <<"MESH:">> \o raw
                           ELSE raw
                IN  {db[t][i][FkName(d)] : i \in RowsWithId(t, k)} =
                        IF MappingIds(d, key) = {}
                        THEN {NullFk}
                        ELSE {Fk(n) : n \in MappingIds(d, key)}

\* C9 witness: an exposure_event row whose disease_id matches a disease only
\* once prefixed, written with that disease's key, beside a chem_disease row
\* matched on its unchanged disease_id.
C9_Witness ==
    /\ {"exposure_event", "chem_disease"} \subseteq imported
    /\ \E k \in 1..NRows("exposure_event") :
          LET raw == NaturalIdRead("exposure_event", "disease", k)
          IN  /\ raw # NaN
              /\ MappingIds("disease", raw) = {}
              /\ MappingIds("disease", <<"MESH:">> \o raw) # {}
              /\ \E i \in RowsWithId("exposure_event", k) :
                    db["exposure_event"][i]["disease__id"] # NullFk
    /\ \E i \in 1..Len(db["chem_disease"]) : db["chem_disease"][i]["disease__id"] # NullFk

\* A natural id as stored in a domain's table, as the mapping keys it.
Normal(d, v) ==
    IF d = "chemical" /\ v # NaN THEN StrStrip(SelectSeq(v, LAMBDA x : x # "MESH:")) ELSE v

\* C10: a non-null '<domain>__id' written to a table that is not a domain
\* is the ordinal + 1 of a row of the domain's file whose natural id (after
\* the chemical strip) is the referencing row's, and once the domain's table
\* is loaded, in whatever order, it is the id of a row of that table with
\* that natural id.
C10_ForeignKeyIsDomainRowId ==
    \A t \in imported : \A d \in Domains :
        RefersTo(t, d) =>
            \A i \in 1..Len(db[t]) :
                db[t][i][FkName(d)] # NullFk =>
                    LET fk == db[t][i][FkName(d)][1]
                    IN  /\ db[t][i]["id"] \in 1..NRows(t)
                        /\ fk \in 1..NRows(d)
                        /\ NaturalIdOf(d, fk) = ChunkNaturalId(t, d, db[t][i]["id"])
                        /\ d \in imported =>
                              \E j \in 1..Len(db[d]) :
                                  /\ db[d][j]["id"] = fk
                                  /\ Normal(d, db[d][j][DomainIdName(d)]) =
                                        ChunkNaturalId(t, d, db[t][i]["id"])

\* C10 witness: a chemical foreign key written while the chemical table, now
\* loaded, holds the row it names under a prefixed id.
C10_Witness ==
    /\ {"chem_disease", "chemical", "disease"} \subseteq imported
    /\ \E i \in 1..Len(db["chem_disease"]) :
          /\ db["chem_disease"][i]["chemical__id"] # NullFk
          /\ db["chem_disease"][i]["disease__id"] # NullFk
          /\ \E j \in 1..Len(db["chemical"]) :
                /\ db["chemical"][j]["id"] = db["chem_disease"][i]["chemical__id"][1]
                /\ db["chemical"][j]["chemical_id"] # Normal("chemical", db["chemical"][j]["chemical_id"])

====
